---- MODULE Spec2Model ----
(***************************************************************************)
(* Model of src/digit_recognizer/train.py: the Train driver class.         *)
(*                                                                         *)
(* The driver is one Python object whose attributes are created by its     *)
(* methods.  An attribute that has not been assigned yet is Unset; reading *)
(* it raises AttributeError.  Every method is one action that models the   *)
(* whole call, including the case in which it raises part way through.     *)
(* The process' working directory, the files on disk and the log are the   *)
(* environment the methods read and write.                                 *)
(***************************************************************************)
EXTENDS Integers, Sequences, FiniteSets, TLC

VARIABLES
    constructed,                \* TRUE once Train.__init__ has returned
    model_version,              \* self.model_version
    best_validation_loss,       \* self.best_validation_loss
    home_directory_path,        \* self.home_directory_path
    model_configuration,        \* self.model_configuration
    dataset,                    \* self.dataset
    model,                      \* self.model
    optimizer,                  \* self.optimizer
    checkpoint_directory_path,  \* self.checkpoint_directory_path
    manager,                    \* self.manager
    reports_directory_path,     \* self.reports_directory_path
    cwd,                        \* the process' current working directory
    config_files,               \* configuration files on disk, by path
    checkpoint_files,           \* snapshots on disk, by checkpoint directory
    directories,                \* report directories that exist on disk
    files,                      \* files written under the report directories
    log,                        \* the lines given to add_to_log, in order
    result,                     \* the last call: method, argument, outcome
    completed                   \* the calls that assigned attributes so far

self == <<constructed, model_version, best_validation_loss,
          home_directory_path, model_configuration, dataset, model,
          optimizer, checkpoint_directory_path, manager,
          reports_directory_path>>

disk == <<config_files, checkpoint_files, directories, files>>

vars == <<self, cwd, disk, log, result, completed>>

----------------------------------------------------------------------------
(* Bounds of the model. *)

\* A method that logs is not called once the log holds this many lines.
MaxLogLen == 3

----------------------------------------------------------------------------
(* Python values, as far as the type checks of the code tell them apart. *)

PyStr(s) == [type |-> "str", val |-> s]
PyInt(s) == [type |-> "int", val |-> s]
PyNone == [type |-> "NoneType", val |-> "None"]

isinstance_str(v) == v.type = "str"

\* An attribute, a file or an optional argument: absent, or holding a value.
Unset == <<>>
Set(x) == <<x>>
hasattr(a) == a # Unset
Get(a) == a[1]

----------------------------------------------------------------------------
(* The inputs the model draws from. *)

Cwds == {"/a", "/b"}

VersionStrings == {"", "1"}

VersionInputs == {PyStr(v) : v \in VersionStrings} \cup {PyInt("1"), PyNone}

ModeInputs == {PyStr("train"), PyStr("predict"), PyStr("test"), PyInt("1")}

\* A configuration with, and one without, model.optimizer.learning_rate.
Configuration(lr) == [model |-> [optimizer |-> [learning_rate |-> lr]]]
ConfigurationNoRate == [model |-> [optimizer |-> [name |-> "adam"]]]

----------------------------------------------------------------------------
(* Paths. *)

\* "{}/configs/models/digit_recognizer".format(self.home_directory_path)
model_configuration_directory_path(home) ==
    home \o "/configs/models/digit_recognizer"

\* Mutant: the key is the bare version, without the "v" in front.
ConfigFileName_NoPrefix(version) == version

\* "v{}".format(self.model_version)
ConfigFileName(version) == "v" \o version

\* The file load_json_file opens for a name in a directory.
JsonFilePath(file_name, directory_path) ==
    directory_path \o "/" \o file_name \o ".json"

\* Mutant: the path is built from the working directory of the moment.
CheckpointDirectoryPath_Cwd(home, version) ==
    cwd \o "/models/digit_recognizer/v" \o version \o "/checkpoints"

\* "{}/models/digit_recognizer/v{}/checkpoints".format(home, version)
CheckpointDirectoryPath(home, version) ==
    home \o "/models/digit_recognizer/v" \o version \o "/checkpoints"

\* "models/digit_recognizer/v{}/reports".format(self.model_version)
ReportsRelativePath(version) ==
    "models/digit_recognizer/v" \o version \o "/reports"

\* "{}/model_plot.png".format(self.reports_directory_path)
ModelPlotPath(reports) == reports \o "/model_plot.png"

\* "Finished saving model plot at {}/model_plot.png.".format(reports)
PlotLogLine(reports) ==
    "Finished saving model plot at " \o reports \o "/model_plot.png."

\* The configuration files and checkpoint directories there can be on disk.
ConfigPaths ==
    {c \o "/configs/models/digit_recognizer/v" \o v \o ".json" :
        c \in Cwds, v \in VersionStrings}

CheckpointDirs ==
    {c \o "/models/digit_recognizer/v" \o v \o "/checkpoints" :
        c \in Cwds, v \in VersionStrings}

----------------------------------------------------------------------------
(* The collaborators: configuration store, dataset, model, checkpoints. *)

\* The content of a file, or Unset when there is no such file.
ReadFile(path) ==
    IF path \in DOMAIN config_files THEN config_files[path] ELSE Unset

\* load_json_file(file_name, directory_path): the parsed content of
\* <directory_path>/<file_name>.json, or Unset when it raises.
load_json_file(file_name, directory_path) ==
    ReadFile(JsonFilePath(file_name, directory_path))

\* Mutant: the data is split before it is loaded.
DatasetSteps_SplitFirst ==
    <<"split_dataset", "load_data", "shuffle_slice_dataset">>

\* The three calls load_dataset makes on the Dataset object, in order.
DatasetSteps == <<"load_data", "split_dataset", "shuffle_slice_dataset">>

\* Dataset(model_configuration) after `done` of its steps have returned.
Dataset(configuration, done) ==
    [configuration |-> configuration, prepared |-> SubSeq(DatasetSteps, 1, done)]

\* Parameters of a freshly constructed model.
FreshParams == [origin |-> "initializer", step |-> 0]

\* Parameters saved in the snapshot of a directory at a step.
SnapshotParams(directory, step) == [origin |-> directory, step |-> step]

\* Model(model_configuration)
Model(configuration) == [configuration |-> configuration, params |-> FreshParams]

\* Mutant: a missing learning rate falls back to a default.
LearningRate_Default(configuration) ==
    IF /\ "model" \in DOMAIN configuration
       /\ "optimizer" \in DOMAIN configuration.model
       /\ "learning_rate" \in DOMAIN configuration.model.optimizer
    THEN Set(configuration.model.optimizer.learning_rate)
    ELSE Set(1)

\* configuration["model"]["optimizer"]["learning_rate"]: Unset is KeyError.
LearningRate(configuration) ==
    IF /\ "model" \in DOMAIN configuration
       /\ "optimizer" \in DOMAIN configuration.model
       /\ "learning_rate" \in DOMAIN configuration.model.optimizer
    THEN Set(configuration.model.optimizer.learning_rate)
    ELSE Unset

\* tf.keras.optimizers.Adam(learning_rate=...)
Adam(learning_rate) == [name |-> "Adam", learning_rate |-> learning_rate]

max_to_keep == 3

\* tf.train.CheckpointManager(checkpoint, directory=..., max_to_keep=3)
CheckpointManager(directory) ==
    [directory |-> directory, max_to_keep |-> max_to_keep]

\* The snapshots of a directory, oldest first; none when there is no directory.
Snapshots(directory) ==
    IF directory \in DOMAIN checkpoint_files
    THEN checkpoint_files[directory] ELSE <<>>

\* Mutant: the oldest snapshot of the directory is taken.
latest_checkpoint_Oldest(directory) ==
    LET s == Snapshots(directory)
    IN  IF Len(s) = 0 THEN Unset
        ELSE Set([directory |-> directory, step |-> s[1]])

\* tf.train.latest_checkpoint(directory): the snapshot the directory's state
\* file names as saved last, or Unset (None) when there is none.
latest_checkpoint(directory) ==
    LET s == Snapshots(directory)
    IN  IF Len(s) = 0 THEN Unset
        ELSE Set([directory |-> directory, step |-> s[Len(s)]])

\* Mutant: restoring None wipes the parameters of the model.
restore_NoneClears(m, save_path) ==
    IF save_path = Unset
    THEN [m EXCEPT !.params = [origin |-> "none", step |-> 0]]
    ELSE [m EXCEPT !.params =
              SnapshotParams(Get(save_path).directory, Get(save_path).step)]

\* checkpoint.restore(save_path) on Checkpoint(model=m): None restores nothing.
restore(m, save_path) ==
    IF save_path = Unset THEN m
    ELSE [m EXCEPT !.params =
              SnapshotParams(Get(save_path).directory, Get(save_path).step)]

\* Mutant: only the type of mode is asserted.
ValidMode_TypeOnly(mode) == isinstance_str(mode)

\* assert isinstance(mode, str); assert mode in ["train", "predict"]
ValidMode(mode) == isinstance_str(mode) /\ mode.val \in {"train", "predict"}

\* if mode == "predict":
RestoreRequested(mode) == mode.val = "predict"

\* The two add_to_log calls that end load_model.
CompletionLogLines ==
    <<"Finished loading model for current configuration.", "">>

RECURSIVE Join(_, _)
\* sep.join(lines)
Join(lines, sep) ==
    IF Len(lines) = 0 THEN ""
    ELSE IF Len(lines) = 1 THEN lines[1]
    ELSE lines[1] \o sep \o Join(Tail(lines), sep)

\* The lines model.summary(print_fn=...) prints for the graph of a model.
SummaryLines(m) == <<"Model: model", "Total params">>

\* check_directory_path_existence(directory_path): the absolute path.
AbsoluteDirectoryPath(directory_path) == cwd \o "/" \o directory_path

\* Mutant: the plot is rendered whatever the argument.
PlotRequested_Always(plot) == TRUE

\* if plot:
PlotRequested(plot) == plot.val = "True"

PyBool(b) == [type |-> "bool", val |-> IF b THEN "True" ELSE "False"]
PlotInputs == {PyBool(TRUE), PyBool(FALSE)}

----------------------------------------------------------------------------
(* What a call leaves in `result` and `completed`. *)

Outcome(op, arg, outcome, calls) ==
    [op |-> op, arg |-> arg, outcome |-> outcome, calls |-> calls]

\* A call that raised before it assigned any attribute of the driver.
Rejected(op, arg, outcome, calls) ==
    /\ result' = Outcome(op, arg, outcome, calls)
    /\ completed' = completed

\* A call that assigned attributes of the driver, whatever its outcome.
Record(op, arg, outcome, calls) ==
    /\ result' = Outcome(op, arg, outcome, calls)
    /\ completed' = completed \cup {op \o ":" \o outcome}

----------------------------------------------------------------------------
(* The snapshot lists a checkpoint directory can hold: at most max_to_keep *)
(* snapshots, saved at increasing steps.                                   *)

\* The steps at which snapshots were saved.
Steps == {10, 20, 30}

SnapshotLists ==
    {s \in UNION {[1..n -> Steps] : n \in 0..max_to_keep} :
        \A i \in 1..(Len(s) - 1) : s[i] < s[i + 1]}

\* Every checkpoint directory holds snapshots at the same steps; what they
\* hold differs by directory (SnapshotParams).
CheckpointStores == {[d \in CheckpointDirs |-> s] : s \in SnapshotLists}

\* What can be at a configuration path: no file, or one of the contents.
FileOptions ==
    <<Unset, Set(Configuration(1)), Set(ConfigurationNoRate),
      Set(Configuration(2))>>

\* A configuration store gives the four paths four different options; over
\* the two stores each version meets a missing file, a configuration with
\* and a configuration without a learning rate.
ConfigStore(k) ==
    LET Index(c, v) == (IF c = "/a" THEN 0 ELSE 1) + (IF v = "" THEN 0 ELSE 2)
        entries ==
            {<<c \o "/configs/models/digit_recognizer/v" \o v \o ".json",
               FileOptions[((Index(c, v) + k) % 4) + 1]>> :
                 c \in Cwds, v \in VersionStrings}
    IN  [p \in ConfigPaths |-> (CHOOSE e \in entries : e[1] = p)[2]]

ConfigStores == {ConfigStore(0), ConfigStore(1)}

Init ==
    /\ constructed = FALSE
    /\ model_version = Unset
    /\ best_validation_loss = Unset
    /\ home_directory_path = Unset
    /\ model_configuration = Unset
    /\ dataset = Unset
    /\ model = Unset
    /\ optimizer = Unset
    /\ checkpoint_directory_path = Unset
    /\ manager = Unset
    /\ reports_directory_path = Unset
    /\ cwd \in Cwds
    /\ config_files \in ConfigStores
    /\ checkpoint_files \in CheckpointStores
    /\ directories = {}
    /\ files = {}
    /\ log = <<>>
    /\ result = Outcome("none", PyNone, "ok", <<>>)
    /\ completed = {}

----------------------------------------------------------------------------
(* Mutant: __init__ also creates the configuration attribute, with a default. *)
Train_init_Defaults(version) ==
    /\ ~constructed
    /\ IF ~isinstance_str(version)
       THEN /\ Rejected("__init__", version, "AssertionError", <<>>)
            /\ UNCHANGED <<self, cwd, disk, log>>
       ELSE /\ constructed' = TRUE
            /\ model_version' = Set(version.val)
            /\ best_validation_loss' = Set(PyNone)
            /\ model_configuration' = Set(ConfigurationNoRate)
            /\ Record("__init__", version, "ok", <<>>)
            /\ UNCHANGED <<home_directory_path, dataset, model, optimizer,
                           checkpoint_directory_path, manager,
                           reports_directory_path, cwd, disk, log>>

(* Train.__init__(model_version) *)
Train_init(version) ==
    /\ ~constructed
    /\ IF ~isinstance_str(version)
       THEN /\ Rejected("__init__", version, "AssertionError", <<>>)
            /\ UNCHANGED <<self, cwd, disk, log>>
       ELSE /\ constructed' = TRUE
            /\ model_version' = Set(version.val)
            /\ best_validation_loss' = Set(PyNone)
            /\ Record("__init__", version, "ok", <<>>)
            /\ UNCHANGED <<home_directory_path, model_configuration, dataset,
                           model, optimizer, checkpoint_directory_path,
                           manager, reports_directory_path, cwd, disk, log>>

(* Train.load_model_configuration() *)
load_model_configuration ==
    /\ constructed
    /\ home_directory_path' = Set(cwd)
    /\ LET loaded == load_json_file(
                         ConfigFileName(Get(model_version)),
                         model_configuration_directory_path(
                             Get(home_directory_path')))
       IN  IF loaded = Unset
           THEN /\ Record("load_model_configuration", PyNone,
                          "FileNotFoundError", <<"load_json_file">>)
                /\ UNCHANGED model_configuration
           ELSE /\ model_configuration' = loaded
                /\ Record("load_model_configuration", PyNone, "ok",
                          <<"load_json_file">>)
    /\ UNCHANGED <<constructed, model_version, best_validation_loss, dataset,
                   model, optimizer, checkpoint_directory_path, manager,
                   reports_directory_path, cwd, disk, log>>

(* Train.load_dataset(); failing = 0 when no step raises, else the step that does *)
load_dataset(failing) ==
    /\ constructed
    /\ IF ~hasattr(model_configuration)
       THEN /\ Rejected("load_dataset", PyNone, "AttributeError", <<>>)
            /\ UNCHANGED dataset
       ELSE IF failing = 0
       THEN /\ dataset' = Set(Dataset(Get(model_configuration), Len(DatasetSteps)))
            /\ Record("load_dataset", PyNone, "ok", <<"Dataset">> \o DatasetSteps)
       ELSE /\ dataset' = Set(Dataset(Get(model_configuration), failing - 1))
            /\ Record("load_dataset", PyNone, "DatasetError",
                      <<"Dataset">> \o SubSeq(DatasetSteps, 1, failing))
    /\ UNCHANGED <<constructed, model_version, best_validation_loss,
                   home_directory_path, model_configuration, model, optimizer,
                   checkpoint_directory_path, manager, reports_directory_path,
                   cwd, disk, log>>

(* Train.load_model(mode) *)
load_model(mode) ==
    /\ constructed
    /\ Len(log) < MaxLogLen
    /\ IF ~ValidMode(mode)
       THEN \* lines 97-101: an assert fails before anything else is done
            /\ Rejected("load_model", mode, "AssertionError", <<>>)
            /\ UNCHANGED <<model, optimizer, checkpoint_directory_path,
                           manager, log>>
       ELSE IF ~hasattr(model_configuration)
       THEN \* line 104: self.model_configuration does not exist
            /\ Rejected("load_model", mode, "AttributeError", <<>>)
            /\ UNCHANGED <<model, optimizer, checkpoint_directory_path,
                           manager, log>>
       ELSE IF ~hasattr(LearningRate(Get(model_configuration)))
       THEN \* lines 107-111: the model is assigned, the subscript raises
            /\ model' = Set(Model(Get(model_configuration)))
            /\ Record("load_model", mode, "KeyError", <<"Model">>)
            /\ UNCHANGED <<optimizer, checkpoint_directory_path, manager, log>>
       ELSE IF ~hasattr(home_directory_path)
       THEN \* line 116: self.home_directory_path does not exist
            /\ model' = Set(Model(Get(model_configuration)))
            /\ optimizer' =
                   Set(Adam(Get(LearningRate(Get(model_configuration)))))
            /\ Record("load_model", mode, "AttributeError", <<"Model", "Adam">>)
            /\ UNCHANGED <<checkpoint_directory_path, manager, log>>
       ELSE LET directory == CheckpointDirectoryPath(
                                 Get(home_directory_path), Get(model_version))
                built == Model(Get(model_configuration))
                made == <<"Model", "Adam", "Checkpoint", "CheckpointManager">>
            IN  /\ optimizer' =
                       Set(Adam(Get(LearningRate(Get(model_configuration)))))
                /\ checkpoint_directory_path' = Set(directory)
                /\ manager' = Set(CheckpointManager(directory))
                /\ IF RestoreRequested(mode)
                   THEN /\ model' = Set(restore(built, latest_checkpoint(directory)))
                        /\ Record("load_model", mode, "ok",
                                  made \o <<"latest_checkpoint", "restore">>
                                       \o <<"add_to_log", "add_to_log">>)
                   ELSE /\ model' = Set(built)
                        /\ Record("load_model", mode, "ok",
                                  made \o <<"add_to_log", "add_to_log">>)
                /\ log' = log \o CompletionLogLines
    /\ UNCHANGED <<constructed, model_version, best_validation_loss,
                   home_directory_path, model_configuration, dataset,
                   reports_directory_path, cwd, disk>>

(* Train.generate_model_summary_and_plot(plot) *)
generate_model_summary_and_plot(plot) ==
    /\ constructed
    /\ Len(log) < MaxLogLen
    /\ IF ~hasattr(model)
       THEN \* line 145: self.model does not exist
            /\ Rejected("generate_model_summary_and_plot", plot,
                      "AttributeError", <<>>)
            /\ UNCHANGED <<reports_directory_path, directories, files, log>>
       ELSE LET summary == Join(SummaryLines(Get(model)), "\n")
                reports == AbsoluteDirectoryPath(
                               ReportsRelativePath(Get(model_version)))
                made == <<"build_graph", "summary", "add_to_log", "add_to_log",
                          "check_directory_path_existence">>
            IN  /\ reports_directory_path' = Set(reports)
                /\ directories' = directories \cup {reports}
                /\ IF PlotRequested(plot)
                   THEN /\ files' = files \cup {ModelPlotPath(reports)}
                        /\ log' = log \o <<summary, "">>
                                      \o <<PlotLogLine(reports), "">>
                        /\ Record("generate_model_summary_and_plot", plot, "ok",
                                  made \o <<"plot_model", "add_to_log",
                                            "add_to_log">>)
                   ELSE /\ files' = files
                        /\ log' = log \o <<summary, "">>
                        /\ Record("generate_model_summary_and_plot", plot, "ok",
                                  made)
    /\ UNCHANGED <<constructed, model_version, best_validation_loss,
                   home_directory_path, model_configuration, dataset, model,
                   optimizer, checkpoint_directory_path, manager, cwd,
                   config_files, checkpoint_files>>

(* os.chdir by the caller: the working directory os.getcwd() reports *)
chdir(directory) ==
    /\ cwd # directory
    /\ cwd' = directory
    /\ UNCHANGED <<self, disk, log, result, completed>>

Next ==
    \/ \E v \in VersionInputs : Train_init(v)
    \/ load_model_configuration
    \/ \E k \in 0..Len(DatasetSteps) : load_dataset(k)
    \/ \E m \in ModeInputs : load_model(m)
    \/ \E p \in PlotInputs : generate_model_summary_and_plot(p)
    \/ \E d \in Cwds : chdir(d)

Spec == Init /\ [][Next]_vars

----------------------------------------------------------------------------
(* Properties.                                                             *)
(* The paths and lines the properties expect are written out here, apart   *)
(* from the operators the actions use.                                     *)

Calls(r) == {r.calls[i] : i \in DOMAIN r.calls}

ExpectedCheckpointDir ==
    Get(home_directory_path) \o "/models/digit_recognizer/v"
        \o Get(model_version) \o "/checkpoints"

ExpectedReportsDir ==
    cwd \o "/models/digit_recognizer/v" \o Get(model_version) \o "/reports"

ExpectedConfigPath ==
    cwd \o "/configs/models/digit_recognizer/v" \o Get(model_version)
        \o ".json"

ExpectedSummary == "Model: model\nTotal params"

HasRate(configuration) ==
    /\ "model" \in DOMAIN configuration
    /\ "optimizer" \in DOMAIN configuration.model
    /\ "learning_rate" \in DOMAIN configuration.model.optimizer

MaxOf(S) == CHOOSE x \in S : \A y \in S : y <= x

StepsIn(directory) ==
    {checkpoint_files[directory][i] : i \in DOMAIN checkpoint_files[directory]}

\* C1: load_model with a mode that is not the string 'train' or 'predict'
\* fails with AssertionError (InvalidArgument) before any effect: no
\* collaborator is called, and the driver, the disk, the working directory
\* and the log are as before the call.
C1_InvalidModeNoEffect ==
    [][\A m \in ModeInputs :
          (load_model(m) /\ m \notin {PyStr("train"), PyStr("predict")})
          => /\ result'.outcome = "AssertionError"
             /\ result'.calls = <<>>
             /\ UNCHANGED <<self, cwd, disk, log>>]_vars

\* C1 witness: an invalid string mode was rejected although the
\* configuration was loaded, so only the check of the mode stopped the call.
C1_Witness ==
    /\ result.op = "load_model"
    /\ result.arg = PyStr("test")
    /\ result.outcome = "AssertionError"
    /\ hasattr(model_configuration)
    /\ ~hasattr(model)

\* C2: a load_model that succeeds attempts a restore exactly when mode is
\* 'predict' (with 'train' the model keeps its fresh parameters), and in
\* both modes creates the manager on
\* <home>/models/digit_recognizer/v<version>/checkpoints with max_to_keep 3,
\* <home> being the working directory load_model_configuration captured:
\* only that method assigns it.
C2_RestoreIffPredict ==
    [][/\ \A m \in ModeInputs :
            (load_model(m) /\ result'.outcome = "ok")
            => /\ ("restore" \in Calls(result')) <=> (m = PyStr("predict"))
               /\ (m = PyStr("train")) =>
                      Get(model').params = [origin |-> "initializer", step |-> 0]
               /\ manager' = Set([directory |-> ExpectedCheckpointDir,
                                  max_to_keep |-> 3])
               /\ checkpoint_directory_path' = Set(ExpectedCheckpointDir)
       /\ load_model_configuration => home_directory_path' = Set(cwd)
       /\ (home_directory_path' # home_directory_path)
              => load_model_configuration]_vars

\* C2 witness: load_model('train') succeeded after the working directory
\* had moved away from the one load_model_configuration captured.
C2_Witness ==
    /\ result.op = "load_model"
    /\ result.arg = PyStr("train")
    /\ result.outcome = "ok"
    /\ hasattr(manager)
    /\ Get(home_directory_path) # cwd
    /\ Get(manager).directory = ExpectedCheckpointDir

\* C3: load_model('predict') on a checkpoint directory with one to three
\* snapshots leaves the model with the parameters of the snapshot of the
\* highest step, and of no other snapshot of the directory.
C3_RestoresMostRecent ==
    [][(/\ load_model(PyStr("predict"))
        /\ result'.outcome = "ok"
        /\ StepsIn(ExpectedCheckpointDir) # {})
       => LET steps == StepsIn(ExpectedCheckpointDir)
          IN  /\ Cardinality(steps) <= 3
              /\ Get(model').params =
                     [origin |-> ExpectedCheckpointDir, step |-> MaxOf(steps)]
              /\ \A t \in steps \ {MaxOf(steps)} :
                     Get(model').params #
                         [origin |-> ExpectedCheckpointDir, step |-> t]]_vars

\* C3 witness: the directory holds the snapshots of steps 10, 20 and 30 and
\* the model was restored from step 30.
C3_Witness ==
    /\ result.op = "load_model"
    /\ result.arg = PyStr("predict")
    /\ result.outcome = "ok"
    /\ hasattr(manager)
    /\ checkpoint_files[Get(manager).directory] = <<10, 20, 30>>
    /\ Get(model).params = [origin |-> Get(manager).directory, step |-> 30]

\* C4: load_model('predict') on a checkpoint directory without a snapshot,
\* with a configuration that has a learning rate, succeeds: the model keeps
\* its fresh parameters, the manager is created and the two completion
\* lines are logged.
C4_EmptyDirectoryNoOp ==
    [][(/\ load_model(PyStr("predict"))
        /\ hasattr(model_configuration)
        /\ HasRate(Get(model_configuration))
        /\ StepsIn(ExpectedCheckpointDir) = {})
       => /\ result'.outcome = "ok"
          /\ model' = Set([configuration |-> Get(model_configuration),
                           params |-> [origin |-> "initializer", step |-> 0]])
          /\ manager' = Set([directory |-> ExpectedCheckpointDir,
                             max_to_keep |-> 3])
          /\ log' = log \o <<"Finished loading model for current configuration.",
                             "">>]_vars

\* C4 witness: load_model('predict') succeeded on a directory without a
\* snapshot.
C4_Witness ==
    /\ result.op = "load_model"
    /\ result.arg = PyStr("predict")
    /\ result.outcome = "ok"
    /\ hasattr(manager)
    /\ checkpoint_files[Get(manager).directory] = <<>>
    /\ "restore" \in Calls(result)
    /\ Len(log) = 2

\* C5: generate_model_summary_and_plot on a loaded model logs the summary
\* and leaves the reports directory of the version in existence; with plot
\* false it writes no file and no further line, with plot true it writes
\* the one file <reports>/model_plot.png and logs one line naming it.
C5_PlotOnlyOnRequest ==
    [][\A p \in PlotInputs :
          (generate_model_summary_and_plot(p) /\ hasattr(model))
          => /\ result'.outcome = "ok"
             /\ reports_directory_path' = Set(ExpectedReportsDir)
             /\ ExpectedReportsDir \in directories'
             /\ IF p = PyBool(TRUE)
                THEN /\ files' = files \cup
                             {ExpectedReportsDir \o "/model_plot.png"}
                     /\ log' = log \o <<ExpectedSummary, "",
                                   "Finished saving model plot at "
                                       \o ExpectedReportsDir
                                       \o "/model_plot.png.", "">>
                ELSE /\ files' = files
                     /\ log' = log \o <<ExpectedSummary, "">>]_vars

\* C5 witness: a call with plot false left no file, and the call with plot
\* true that followed it wrote the plot.
C5_Witness ==
    /\ result.op = "generate_model_summary_and_plot"
    /\ result.arg = PyBool(TRUE)
    /\ result.outcome = "ok"
    /\ Len(log) = 6
    /\ log[1] = ExpectedSummary
    /\ log[3] = ExpectedSummary
    /\ files = {Get(reports_directory_path) \o "/model_plot.png"}
    /\ Get(reports_directory_path) \in directories

\* C6 as stated: the calls succeed only in the order configuration,
\* dataset, model, summary: load_dataset only after a successful
\* load_model_configuration, load_model only after a successful
\* load_dataset, generate_model_summary_and_plot only after a successful
\* load_model.
C6_Original ==
    /\ (result.op = "load_dataset" /\ result.outcome = "ok")
           => "load_model_configuration:ok" \in completed
    /\ (result.op = "load_model" /\ result.outcome = "ok")
           => "load_dataset:ok" \in completed
    /\ (result.op = "generate_model_summary_and_plot" /\ result.outcome = "ok")
           => "load_model:ok" \in completed

\* C6 amended: load_dataset and load_model each succeed only after a
\* successful load_model_configuration (load_model does not need the
\* dataset); generate_model_summary_and_plot succeeds only after a
\* load_model that constructed the model, whether it then succeeded or
\* raised KeyError; a call whose attribute is missing raises AttributeError
\* and leaves the driver, the disk and the log as they were.
C6_PrerequisiteOrder ==
    [][/\ \A k \in 0..3 :
            (result'.op = "load_dataset" /\ load_dataset(k)) =>
                IF "load_model_configuration:ok" \in completed
                THEN result'.outcome \in {"ok", "DatasetError"}
                ELSE /\ result'.outcome = "AttributeError"
                     /\ UNCHANGED <<self, disk, log>>
       /\ \A m \in {PyStr("train"), PyStr("predict")} :
            (result'.op = "load_model" /\ load_model(m)) =>
                IF "load_model_configuration:ok" \in completed
                THEN result'.outcome \in {"ok", "KeyError"}
                ELSE /\ result'.outcome = "AttributeError"
                     /\ UNCHANGED <<self, disk, log>>
       /\ \A p \in PlotInputs :
            (/\ result'.op = "generate_model_summary_and_plot"
             /\ generate_model_summary_and_plot(p)) =>
                IF \/ "load_model:ok" \in completed
                   \/ "load_model:KeyError" \in completed
                THEN result'.outcome = "ok"
                ELSE /\ result'.outcome = "AttributeError"
                     /\ UNCHANGED <<self, disk, log>>]_vars

\* C6 witness: load_model succeeded after load_model_configuration on a
\* driver whose dataset was never loaded.
C6_Witness ==
    /\ result.op = "load_model"
    /\ result.outcome = "ok"
    /\ ~hasattr(dataset)
    /\ "load_model_configuration:ok" \in completed

\* C7: load_model_configuration reads the key 'v' + version under
\* <cwd>/configs/models/digit_recognizer: when the file exists the
\* configuration of the driver becomes its content, when it does not the
\* call fails with FileNotFoundError (ConfigNotFound) and the configuration
\* is not assigned.
C7_ConfigurationForVersion ==
    [][load_model_configuration
       => IF config_files[ExpectedConfigPath] # Unset
          THEN /\ result'.outcome = "ok"
               /\ model_configuration' = config_files[ExpectedConfigPath]
          ELSE /\ result'.outcome = "FileNotFoundError"
               /\ model_configuration' = model_configuration]_vars

\* C7 witness: the configuration of version "1" was loaded while another
\* key of the same directory holds something else.
C7_Witness ==
    /\ result.op = "load_model_configuration"
    /\ result.outcome = "ok"
    /\ model_version = Set("1")
    /\ cwd = Get(home_directory_path)
    /\ model_configuration = config_files[ExpectedConfigPath]
    /\ model_configuration # config_files[
           cwd \o "/configs/models/digit_recognizer/v.json"]

\* C8 as stated: a non-string version is refused, and every constructed
\* driver holds a non-empty string model_version and an unset
\* best_validation_loss.
C8_Original ==
    /\ (result.op = "__init__" /\ result.arg.type # "str")
           => (result.outcome = "AssertionError" /\ ~constructed)
    /\ constructed
           => /\ hasattr(model_version)
              /\ Get(model_version) # ""
              /\ best_validation_loss = Set(PyNone)

\* C9 as stated: with no learning rate in the configuration a load_model of
\* a valid mode fails with KeyError (ConfigFieldMissing) and leaves the
\* model, the optimizer, the manager, the checkpoint path and the log as
\* they were.
C9_Original ==
    [][\A m \in {PyStr("train"), PyStr("predict")} :
          (/\ load_model(m)
           /\ hasattr(model_configuration)
           /\ ~HasRate(Get(model_configuration)))
          => /\ result'.outcome = "KeyError"
             /\ UNCHANGED <<model, optimizer, checkpoint_directory_path,
                            manager, log, disk>>]_vars

\* C9 amended: with no learning rate in the configuration a load_model of a
\* valid mode fails with KeyError after it has assigned the freshly
\* constructed model to the driver; no optimizer and no manager is created,
\* no restore is attempted and nothing is logged.
C9_FailsAfterModelAssigned ==
    [][\A m \in {PyStr("train"), PyStr("predict")} :
          (/\ load_model(m)
           /\ hasattr(model_configuration)
           /\ ~HasRate(Get(model_configuration)))
          => /\ result'.outcome = "KeyError"
             /\ result'.calls = <<"Model">>
             /\ model' = Set([configuration |-> Get(model_configuration),
                              params |-> [origin |-> "initializer",
                                          step |-> 0]])
             /\ UNCHANGED <<optimizer, checkpoint_directory_path, manager,
                            log, disk>>]_vars

\* C9 witness: load_model('predict') raised KeyError on a driver that has a
\* model but no manager.
C9_Witness ==
    /\ result.op = "load_model"
    /\ result.arg = PyStr("predict")
    /\ result.outcome = "KeyError"
    /\ hasattr(model)
    /\ ~hasattr(manager)
    /\ ~hasattr(optimizer)
    /\ log = <<>>

\* The calls load_dataset has made when its k-th step raised (k = 0: none).
ExpectedDatasetCalls(k) ==
    IF k = 0
    THEN <<"Dataset", "load_data", "split_dataset", "shuffle_slice_dataset">>
    ELSE SubSeq(<<"Dataset", "load_data", "split_dataset",
                  "shuffle_slice_dataset">>, 1, k + 1)

\* C10 as stated: load_dataset calls load_data, split_dataset and
\* shuffle_slice_dataset in that order, each once, stops at the first that
\* raises, and then leaves the dataset of the driver as it was.
C10_Original ==
    [][\A k \in 0..3 :
          (load_dataset(k) /\ hasattr(model_configuration))
          => /\ result'.calls = ExpectedDatasetCalls(k)
             /\ result'.outcome = (IF k = 0 THEN "ok" ELSE "DatasetError")
             /\ (k # 0) => dataset' = dataset]_vars

\* C10 amended: load_dataset calls load_data, split_dataset and
\* shuffle_slice_dataset in that order, each once, and stops at the first
\* that raises, with DatasetError; the dataset of the driver is by then
\* assigned to the new Dataset object, on which the steps before the
\* failing one have run.
C10_StepsInOrder ==
    [][\A k \in 0..3 :
          (load_dataset(k) /\ hasattr(model_configuration))
          => /\ result'.calls = ExpectedDatasetCalls(k)
             /\ result'.outcome = (IF k = 0 THEN "ok" ELSE "DatasetError")
             /\ dataset' =
                    Set([configuration |-> Get(model_configuration),
                         prepared |->
                             IF k = 0
                             THEN <<"load_data", "split_dataset",
                                    "shuffle_slice_dataset">>
                             ELSE SubSeq(<<"load_data", "split_dataset">>,
                                         1, k - 1)])]_vars

\* C10 witness: split_dataset raised: load_data had run, and
\* shuffle_slice_dataset was not called.
C10_Witness ==
    /\ result.op = "load_dataset"
    /\ result.outcome = "DatasetError"
    /\ result.calls = <<"Dataset", "load_data", "split_dataset">>
    /\ hasattr(dataset)
    /\ Get(dataset).prepared = <<"load_data">>

====
